---- MODULE Spec2Model ----
(***************************************************************************)
(* A model of SingleLinkedList<Type> (single-linked-list.h).               *)
(*                                                                         *)
(* Memory is modelled explicitly: every Node lives at an address, the      *)
(* heap nodes at 1..MaxNodes and the sentinel head_ of list object l at    *)
(* HeadAddr(l).  next_node maps an address to the address its link holds,  *)
(* value maps a heap node to the value it stores, allocated is the set of  *)
(* heap nodes obtained from operator new and not yet deleted, size_ is the *)
(* counter of each list object.  The operators that translate the member   *)
(* functions work on a record m of these four fields, so that a member     *)
(* function can call another one the way the code does.                    *)
(***************************************************************************)
EXTENDS Integers, Sequences, FiniteSets

(* Number of heap nodes operator new can hand out at the same time. *)
MaxNodes == 4

(* The element type: two distinguishable values are enough to see order. *)
Values == {1, 2}

(* The list objects of the program, and the objects the member functions  *)
(* create on the stack: `temp` of a constructor (Temp1 when the           *)
(* constructor builds a user's list, Temp2 when it builds the `temp` of   *)
(* operator=).                                                            *)
Lists == {1, 2}
Temp1 == 3
Temp2 == 4
AllLists == Lists \cup {Temp1, Temp2}

NULL == 0
Nodes == 1..MaxNodes
HeadAddr(l) == 0 - l
Heads == {HeadAddr(l) : l \in AllLists}
Addr == Nodes \cup Heads

(* What a read through a pointer that is no node yields in the pure       *)
(* operators below: an address that is no node, and a value that is no    *)
(* element.                                                               *)
WILD == 0 - 100
GARBAGE == 0

(* Values an uninitialized size_ may hold (the initializer-list            *)
(* constructor has no member initializer for size_).                      *)
Junk == {0, 1, 7}

VARIABLES next_node, value, allocated, size_, live, last, snap

vars == <<next_node, value, allocated, size_, live, last, snap>>

Mem == [next_node |-> next_node, value |-> value,
        allocated |-> allocated, size_ |-> size_]

----
(* Node *)

(* operator new: the address of the storage it returns.  The member       *)
(* functions never compare or compute with addresses, so which free       *)
(* address new returns changes a state only by a renaming of its nodes:   *)
(* new is modelled first-fit.  With no free node left it returns NULL     *)
(* here; the calls below are made only while a node is free.              *)
Alloc(m) ==
    IF Nodes \ m.allocated = {} THEN NULL
    ELSE CHOOSE a \in Nodes \ m.allocated :
            \A b \in Nodes \ m.allocated : a <= b

(* Node(val, next) constructed in the storage at a *)
NewNode(m, a, val, nxt) ==
    IF a \in Nodes
    THEN [m EXCEPT !.allocated = @ \cup {a},
                   !.value = [@ EXCEPT ![a] = val],
                   !.next_node = [@ EXCEPT ![a] = nxt]]
    ELSE m

(* delete p; deleting the null pointer does nothing.  The storage of a    *)
(* deleted node is dead: its fields are reset.                            *)
DeleteNode(m, p) ==
    IF p \in Nodes
    THEN [m EXCEPT !.allocated = @ \ {p},
                   !.value = [@ EXCEPT ![p] = GARBAGE],
                   !.next_node = [@ EXCEPT ![p] = NULL]]
    ELSE m

(* p->next_node *)
NextOf(m, p) == IF p \in Addr THEN m.next_node[p] ELSE WILD

(* p->value *)
ValueOf(m, p) == IF p \in Nodes THEN m.value[p] ELSE GARBAGE

(* p->next_node = q *)
SetNext(m, p, q) ==
    IF p \in Addr THEN [m EXCEPT !.next_node = [@ EXCEPT ![p] = q]] ELSE m

----
(* BasicIterator: an iterator is the address it holds in node_ *)

(* operator++ *)
IterInc(m, it) == NextOf(m, it)

(* std::next(it, n) *)
RECURSIVE StdNext(_, _, _)
StdNext(m, it, n) == IF n <= 0 THEN it ELSE StdNext(m, IterInc(m, it), n - 1)

(* operator* *)
IterDeref(m, it) == ValueOf(m, it)

----
(* SingleLinkedList *)

GetSize(m, this) == m.size_[this]

IsEmpty(m, this) == IF m.size_[this] # 0 THEN FALSE ELSE TRUE

(* The walk of end(): counter runs from 0 to size_ (a size_ that is no    *)
(* count of nodes never ends the walk inside the heap; the walk is cut    *)
(* after MaxNodes + 1 steps).                                             *)
RECURSIVE EndWalk(_, _, _, _)
EndWalk(m, temp_addr, counter, sz) ==
    IF counter = sz \/ counter > MaxNodes THEN temp_addr
    ELSE EndWalk(m, NextOf(m, temp_addr), counter + 1, sz)

(* The pointers the walk reads next_node through *)
RECURSIVE EndWalkReads(_, _, _, _)
EndWalkReads(m, temp_addr, counter, sz) ==
    IF counter = sz \/ counter > MaxNodes THEN {}
    ELSE {temp_addr} \cup EndWalkReads(m, NextOf(m, temp_addr), counter + 1, sz)

(* end() whose walk starts at head_ itself *)
EndFromHead(m, this) == EndWalk(m, HeadAddr(this), 0, m.size_[this])

End(m, this) == EndWalk(m, m.next_node[HeadAddr(this)], 0, m.size_[this])

Begin(m, this) ==
    IF m.size_[this] # 0 THEN m.next_node[HeadAddr(this)] ELSE End(m, this)

(* cend() and cbegin() *)
CEnd(m, this) == EndWalk(m, m.next_node[HeadAddr(this)], 0, m.size_[this])

CBegin(m, this) ==
    IF m.size_[this] # 0 THEN m.next_node[HeadAddr(this)] ELSE CEnd(m, this)

before_begin(this) == HeadAddr(this)

(* The object's storage at the start of a constructor: head_ is Node(),   *)
(* whose link is nullptr; size_ is whatever the constructor sets.         *)
Construct(m, this, sz) ==
    [m EXCEPT !.next_node = [@ EXCEPT ![HeadAddr(this)] = NULL],
              !.size_ = [@ EXCEPT ![this] = sz]]

(* PushFront that links the new node to nothing *)
PushFrontDropTail(m, this, val) ==
    LET a == Alloc(m)
        m1 == NewNode(m, a, val, NULL)
        m2 == SetNext(m1, HeadAddr(this), a)
    IN  [m2 EXCEPT !.size_ = [@ EXCEPT ![this] = @ + 1]]

PushFront(m, this, val) ==
    IF 0 = GetSize(m, this)
    THEN LET a == Alloc(m)
             m1 == NewNode(m, a, val, NULL)
             m2 == SetNext(m1, HeadAddr(this), a)
         IN  [m2 EXCEPT !.size_ = [@ EXCEPT ![this] = @ + 1]]
    ELSE LET a == Alloc(m)
             m1 == NewNode(m, a, val, m.next_node[HeadAddr(this)])
             m2 == SetNext(m1, HeadAddr(this), a)
         IN  [m2 EXCEPT !.size_ = [@ EXCEPT ![this] = @ + 1]]

(* The loop of Clear() left after its first pass *)
ClearLoopFirstOnly(m, this) ==
    IF m.next_node[HeadAddr(this)] # NULL
    THEN LET m1 == DeleteNode(m, m.next_node[HeadAddr(this)])
         IN  SetNext(m1, HeadAddr(this), NULL)
    ELSE m

(* The loop of Clear().  Deleting through a pointer that is no heap node   *)
(* ends the walk.                                                         *)
RECURSIVE ClearLoop(_, _)
ClearLoop(m, this) ==
    IF m.next_node[HeadAddr(this)] # NULL
    THEN LET temp_copy_addr == NextOf(m, m.next_node[HeadAddr(this)])
             m1 == DeleteNode(m, m.next_node[HeadAddr(this)])
             m2 == SetNext(m1, HeadAddr(this), NULL)
             m3 == SetNext(m2, HeadAddr(this), temp_copy_addr)
         IN  IF m.next_node[HeadAddr(this)] \in Nodes
             THEN ClearLoop(m3, this)
             ELSE m3
    ELSE m

(* The non-null pointers the loop of Clear() passes to delete, in order; *)
(* delete temp_copy_addr is passed nullptr.                               *)
RECURSIVE ClearDeletes(_, _)
ClearDeletes(m, this) ==
    IF m.next_node[HeadAddr(this)] # NULL
    THEN LET temp_copy_addr == NextOf(m, m.next_node[HeadAddr(this)])
             m1 == DeleteNode(m, m.next_node[HeadAddr(this)])
             m3 == SetNext(m1, HeadAddr(this), temp_copy_addr)
         IN  IF m.next_node[HeadAddr(this)] \in Nodes
             THEN <<m.next_node[HeadAddr(this)]>> \o ClearDeletes(m3, this)
             ELSE <<m.next_node[HeadAddr(this)]>>
    ELSE <<>>

Clear(m, this) ==
    LET m1 == ClearLoop(m, this)
    IN  [m1 EXCEPT !.size_ = [@ EXCEPT ![this] = 0]]

(* ~SingleLinkedList *)
Destructor(m, this) == Clear(m, this)

(* swap that exchanges the head links and leaves the counts *)
swapLinksOnly(m, this, other) ==
    LET temp_next == m.next_node[HeadAddr(other)]
        m1 == SetNext(m, HeadAddr(other), m.next_node[HeadAddr(this)])
    IN  SetNext(m1, HeadAddr(this), temp_next)

(* swap that copies other's state into this and leaves other as it was *)
swapCopies(m, this, other) ==
    LET m1 == SetNext(m, HeadAddr(this), m.next_node[HeadAddr(other)])
    IN  [m1 EXCEPT !.size_ = [@ EXCEPT ![this] = m.size_[other]]]

swap(m, this, other) ==
    LET temp_next == m.next_node[HeadAddr(other)]
        temp_list_size == m.size_[other]
        m1 == SetNext(m, HeadAddr(other), m.next_node[HeadAddr(this)])
        m2 == [m1 EXCEPT !.size_ = [@ EXCEPT ![other] = m1.size_[this]]]
        m3 == SetNext(m2, HeadAddr(this), temp_next)
    IN  [m3 EXCEPT !.size_ = [@ EXCEPT ![this] = temp_list_size]]

(* The free function swap(lhs, rhs) *)
FreeSwap(m, lhs, rhs) == swap(m, lhs, rhs)

(* size_t arithmetic: -1 stands for SIZE_MAX, the value --size_ wraps to  *)
(* from 0.                                                                *)
SizeDec(n) == IF n = 0 THEN 0 - 1 ELSE n - 1

(* The loop of the initializer-list constructor walking values forwards *)
RECURSIVE InitListLoopForward(_, _, _, _)
InitListLoopForward(m, temp, values, i) ==
    IF i > 0
    THEN InitListLoopForward(PushFront(m, temp, values[Len(values) - i + 1]),
                             temp, values, i - 1)
    ELSE m

(* SingleLinkedList(std::initializer_list<Type> values); this->size_ has   *)
(* the indeterminate value junk.                                          *)
RECURSIVE InitListLoop(_, _, _, _)
InitListLoop(m, temp, values, i) ==
    IF i > 0
    THEN InitListLoop(PushFront(m, temp, values[i]), temp, values, i - 1)
    ELSE m

InitListCtor(m, this, values, temp, junk) ==
    LET m0 == Construct(m, this, junk)
        m1 == Construct(m0, temp, 0)
        m2 == IF Len(values) # 0
              THEN InitListLoop(m1, temp, values, Len(values))
              ELSE [m1 EXCEPT !.size_ = [@ EXCEPT ![temp] = 0]]
        m3 == swap(m2, this, temp)
    IN  Destructor(m3, temp)

(* The loop of the copy constructor walking other forwards *)
RECURSIVE CopyLoopReversed(_, _, _, _)
CopyLoopReversed(m, other, temp, i) ==
    IF i > 0
    THEN LET current_value_iterator ==
                 StdNext(m, Begin(m, other), GetSize(m, other) - i)
         IN  CopyLoopReversed(
                 PushFront(m, temp, IterDeref(m, current_value_iterator)),
                 other, temp, i - 1)
    ELSE m

(* SingleLinkedList(const SingleLinkedList& other) *)
RECURSIVE CopyLoop(_, _, _, _)
CopyLoop(m, other, temp, i) ==
    IF i > 0
    THEN LET current_value_iterator == StdNext(m, Begin(m, other), i - 1)
         IN  CopyLoop(PushFront(m, temp, IterDeref(m, current_value_iterator)),
                      other, temp, i - 1)
    ELSE m

(* A copy constructor that copies the head link and the count only *)
CopyCtorShallow(m, this, other, temp) ==
    LET m0 == Construct(m, this, 0)
        m1 == SetNext(m0, HeadAddr(this), m0.next_node[HeadAddr(other)])
    IN  [m1 EXCEPT !.size_ = [@ EXCEPT ![this] = m0.size_[other]]]

CopyCtor(m, this, other, temp) ==
    LET m0 == Construct(m, this, 0)
        m1 == Construct(m0, temp, 0)
        size == GetSize(m1, other)
        m2 == CopyLoop(m1, other, temp, size)
        m3 == swap(m2, this, temp)
    IN  Destructor(m3, temp)

(* operator= without the comparison of this with &rhs *)
CopyAssignNoSelfCheck(m, this, rhs) ==
    LET m1 == CopyCtor(m, Temp1, rhs, Temp2)
        m2 == swap(m1, this, Temp1)
    IN  Destructor(m2, Temp1)

(* operator= *)
CopyAssign(m, this, rhs) ==
    IF this # rhs
    THEN LET m1 == CopyCtor(m, Temp1, rhs, Temp2)
             m2 == swap(m1, this, Temp1)
         IN  Destructor(m2, Temp1)
    ELSE m

(* InsertAfter that links the new node to nothing *)
InsertAfterDropTail(m, this, pos, val) ==
    LET new_node == Alloc(m)
        m1 == NewNode(m, new_node, val, NULL)
        m2 == SetNext(m1, pos, new_node)
        m3 == [m2 EXCEPT !.size_ = [@ EXCEPT ![this] = @ + 1]]
    IN  [mem |-> m3, ret |-> new_node]

(* InsertAfter: the memory afterwards and the iterator returned *)
InsertAfter(m, this, pos, val) ==
    LET new_node == Alloc(m)
        m1 == NewNode(m, new_node, val, NextOf(m, pos))
        m2 == SetNext(m1, pos, new_node)
        m3 == [m2 EXCEPT !.size_ = [@ EXCEPT ![this] = @ + 1]]
    IN  [mem |-> m3, ret |-> new_node]

(* PopFront that leaves size_ as it was *)
PopFrontNoDec(m, this) ==
    LET temp == m.next_node[HeadAddr(this)]
        m1 == SetNext(m, HeadAddr(this), NextOf(m, temp))
    IN  DeleteNode(m1, temp)

(* PopFront that unlinks the first node and does not delete it *)
PopFrontLeak(m, this) ==
    LET temp == m.next_node[HeadAddr(this)]
        m1 == SetNext(m, HeadAddr(this), NextOf(m, temp))
    IN  [m1 EXCEPT !.size_ = [@ EXCEPT ![this] = SizeDec(@)]]

PopFront(m, this) ==
    LET temp == m.next_node[HeadAddr(this)]
        m1 == SetNext(m, HeadAddr(this), NextOf(m, temp))
        m2 == DeleteNode(m1, temp)
    IN  [m2 EXCEPT !.size_ = [@ EXCEPT ![this] = SizeDec(@)]]

(* EraseAfter that unlinks the node and does not delete it *)
EraseAfterLeak(m, this, pos) ==
    LET temp == StdNext(m, pos, 1)
        m1 == SetNext(m, pos, NextOf(m, temp))
        m3 == [m1 EXCEPT !.size_ = [@ EXCEPT ![this] = SizeDec(@)]]
    IN  [mem |-> m3, ret |-> NextOf(m3, pos)]

(* EraseAfter: the memory afterwards and the iterator returned *)
EraseAfter(m, this, pos) ==
    LET node_to_delete == NextOf(m, pos)
        temp == StdNext(m, pos, 1)
        m1 == SetNext(m, pos, NextOf(m, temp))
        m2 == DeleteNode(m1, node_to_delete)
        m3 == [m2 EXCEPT !.size_ = [@ EXCEPT ![this] = SizeDec(@)]]
    IN  [mem |-> m3, ret |-> NextOf(m3, pos)]

----
(* What a caller observes *)

(* for (it = begin(); it != end(); ++it): the positions visited *)
RECURSIVE IterateFrom(_, _, _, _)
IterateFrom(m, it, e, fuel) ==
    IF it = e \/ fuel = 0 THEN <<>>
    ELSE <<it>> \o IterateFrom(m, IterInc(m, it), e, fuel - 1)

Positions(m, l) == IterateFrom(m, Begin(m, l), End(m, l), MaxNodes + 1)

(* ... and the values *it read there *)
Elements(m, l) ==
    LET ps == Positions(m, l) IN [i \in 1..Len(ps) |-> IterDeref(m, ps[i])]

(* The nodes linked after the sentinel, whatever size_ says: follow       *)
(* next_node from head_ until it is no heap node.                         *)
RECURSIVE LinkWalk(_, _, _)
LinkWalk(m, p, fuel) ==
    IF p \notin Nodes \/ fuel = 0 THEN <<>>
    ELSE <<p>> \o LinkWalk(m, m.next_node[p], fuel - 1)

Chain(m, l) == LinkWalk(m, m.next_node[HeadAddr(l)], MaxNodes + 1)

Range(s) == {s[i] : i \in 1..Len(s)}

(* The link that ends the chain of l: the one held by its last node, by   *)
(* head_ when no node is linked.                                          *)
ChainEnd(m, l) ==
    LET chain == Chain(m, l)
    IN  IF chain = <<>> THEN m.next_node[HeadAddr(l)]
        ELSE m.next_node[chain[Len(chain)]]

----
(* The program: a caller that owns the list objects of Lists and calls    *)
(* their member functions.  `last` is what the caller holds of its latest *)
(* call: the member function, its arguments, the iterator returned, how   *)
(* the call ended and the memory before it; Discard drops it before the   *)
(* next call.  `snap` remembers the latest copy: the elements copied and  *)
(* the lists modified since; it is kept only by a caller that follows its *)
(* copies (snap.on, SpecCopies).                                          *)

Free == Nodes \ allocated

SeqsUpTo(S, k) == UNION {[1..n -> S] : n \in 0..k}

(* The positions of list l a caller can hold: before_begin() and the      *)
(* iterators of its nodes.                                                *)
ValidPos(l) == {before_begin(l)} \cup Range(Chain(Mem, l))

NoSnap == [on |-> snap.on, valid |-> FALSE, seq |-> <<>>, touched |-> {}]

(* list r was copied *)
Copied(r) ==
    IF snap.on
    THEN [on |-> TRUE, valid |-> TRUE, seq |-> Elements(Mem, r), touched |-> {}]
    ELSE NoSnap

NoCall ==
    [op |-> "none", l |-> 0, r |-> 0, pos |-> NULL, v |-> 0, vals |-> <<>>,
     ret |-> NULL, outcome |-> "ok", pre |-> <<>>]

(* outcome: "ok" the call returned; "error" it reported a failure (an     *)
(* exception, an assertion); "trap" the process died on an invalid memory *)
(* access; "undefined" it went on after one; "unchecked" it returned      *)
(* normally although its precondition did not hold; "bad_alloc" operator  *)
(* new threw std::bad_alloc and the exception left the call.              *)
Call(op, l, r, pos, v, vals, ret, outcome) ==
    [op |-> op, l |-> l, r |-> r, pos |-> pos, v |-> v, vals |-> vals,
     ret |-> ret, outcome |-> outcome, pre |-> Mem]

Commit(m) ==
    /\ next_node' = m.next_node
    /\ value' = m.value
    /\ allocated' = m.allocated
    /\ size_' = m.size_

(* A modifying call on list l after a copy was made *)
Touch(l) ==
    snap' = IF snap.valid /\ (snap.touched \cup {l}) # Lists
            THEN [snap EXCEPT !.touched = @ \cup {l}]
            ELSE NoSnap

InitMem ==
    /\ next_node = [a \in Addr |-> NULL]
    /\ value = [n \in Nodes |-> GARBAGE]
    /\ allocated = {}
    /\ size_ = [l \in AllLists |-> 0]
    /\ live = [l \in Lists |-> FALSE]
    /\ last = NoCall

Init ==
    /\ InitMem
    /\ snap = [on |-> FALSE, valid |-> FALSE, seq |-> <<>>, touched |-> {}]

InitCopies ==
    /\ InitMem
    /\ snap = [on |-> TRUE, valid |-> FALSE, seq |-> <<>>, touched |-> {}]

Idle == last.op = "none"

Discard ==
    /\ last.op # "none" /\ last.outcome \in {"ok", "bad_alloc"}
    /\ last' = NoCall
    /\ UNCHANGED <<next_node, value, allocated, size_, live, snap>>

DefaultCtorCall(l) ==
    /\ Idle /\ ~live[l]
    /\ Commit(Construct(Mem, l, 0))
    /\ live' = [live EXCEPT ![l] = TRUE]
    /\ last' = Call("DefaultCtor", l, 0, NULL, 0, <<>>, NULL, "ok")
    /\ snap' = NoSnap

(* v records the indeterminate value this->size_ had *)
InitListCtorCall(l) ==
    /\ Idle /\ ~live[l]
    /\ \E values \in SeqsUpTo(Values, Cardinality(Free)) :
       \E junk \in Junk :
          /\ Commit(InitListCtor(Mem, l, values, Temp1, junk))
          /\ last' = Call("InitListCtor", l, 0, NULL, junk, values, NULL, "ok")
    /\ live' = [live EXCEPT ![l] = TRUE]
    /\ snap' = NoSnap

CopyCtorCall(l, r) ==
    /\ Idle /\ ~live[l] /\ live[r]
    /\ Cardinality(Free) >= size_[r]
    /\ Commit(CopyCtor(Mem, l, r, Temp1))
    /\ live' = [live EXCEPT ![l] = TRUE]
    /\ last' = Call("CopyCtor", l, r, NULL, 0, <<>>, NULL, "ok")
    /\ snap' = Copied(r)

CopyAssignCall(l, r) ==
    /\ Idle /\ live[l] /\ live[r]
    /\ l # r => Cardinality(Free) >= size_[r]
    /\ Commit(CopyAssign(Mem, l, r))
    /\ last' = Call("CopyAssign", l, r, NULL, 0, <<>>, NULL, "ok")
    /\ snap' = IF l # r THEN Copied(r) ELSE NoSnap
    /\ UNCHANGED live

SwapCall(l, r) ==
    /\ Idle /\ live[l] /\ live[r]
    /\ Commit(swap(Mem, l, r))
    /\ last' = Call("swap", l, r, NULL, 0, <<>>, NULL, "ok")
    /\ snap' = NoSnap
    /\ UNCHANGED live

FreeSwapCall(l, r) ==
    /\ Idle /\ live[l] /\ live[r]
    /\ Commit(FreeSwap(Mem, l, r))
    /\ last' = Call("swap(lhs, rhs)", l, r, NULL, 0, <<>>, NULL, "ok")
    /\ snap' = NoSnap
    /\ UNCHANGED live

PushFrontCall(l, v) ==
    /\ Idle /\ live[l]
    /\ Free # {}
    /\ Commit(PushFront(Mem, l, v))
    /\ last' = Call("PushFront", l, 0, NULL, v, <<>>, NULL, "ok")
    /\ Touch(l)
    /\ UNCHANGED live

InsertAfterCall(l, pos, v) ==
    /\ Idle /\ live[l]
    /\ pos \in ValidPos(l)
    /\ Free # {}
    /\ LET res == InsertAfter(Mem, l, pos, v)
       IN  /\ Commit(res.mem)
           /\ last' = Call("InsertAfter", l, 0, pos, v, <<>>, res.ret, "ok")
    /\ Touch(l)
    /\ UNCHANGED live

EraseAfterCall(l, pos) ==
    /\ Idle /\ live[l]
    /\ pos \in ValidPos(l)
    /\ NextOf(Mem, pos) # NULL
    /\ LET res == EraseAfter(Mem, l, pos)
       IN  /\ Commit(res.mem)
           /\ last' = Call("EraseAfter", l, 0, pos, 0, <<>>, res.ret, "ok")
    /\ Touch(l)
    /\ UNCHANGED live

PopFrontCall(l) ==
    /\ Idle /\ live[l]
    /\ ~IsEmpty(Mem, l)
    /\ Commit(PopFront(Mem, l))
    /\ last' = Call("PopFront", l, 0, NULL, 0, <<>>, NULL, "ok")
    /\ Touch(l)
    /\ UNCHANGED live

ClearCall(l) ==
    /\ Idle /\ live[l]
    /\ Commit(Clear(Mem, l))
    /\ last' = Call("Clear", l, 0, NULL, 0, <<>>, NULL, "ok")
    /\ Touch(l)
    /\ UNCHANGED live

DestructorCall(l) ==
    /\ Idle /\ live[l]
    /\ Commit(Destructor(Mem, l))
    /\ live' = [live EXCEPT ![l] = FALSE]
    /\ last' = Call("Destructor", l, 0, NULL, 0, <<>>, NULL, "ok")
    /\ snap' = NoSnap

Next ==
    \/ Discard
    \/ \E l \in Lists : DefaultCtorCall(l)
    \/ \E l \in Lists : InitListCtorCall(l)
    \/ \E l, r \in Lists : CopyCtorCall(l, r)
    \/ \E l, r \in Lists : CopyAssignCall(l, r)
    \/ \E l, r \in Lists : SwapCall(l, r)
    \/ \E l \in Lists, v \in Values : PushFrontCall(l, v)
    \/ \E l \in Lists, pos \in Addr, v \in Values : InsertAfterCall(l, pos, v)
    \/ \E l \in Lists, pos \in Addr : EraseAfterCall(l, pos)
    \/ \E l \in Lists : PopFrontCall(l)
    \/ \E l \in Lists : ClearCall(l)
    \/ \E l \in Lists : DestructorCall(l)

Spec == Init /\ [][Next]_vars

(* A caller that constructs, assigns, swaps and destroys lists, swapping  *)
(* through the member function and through the free function.            *)
NextSwap ==
    \/ Discard
    \/ \E l \in Lists : DefaultCtorCall(l)
    \/ \E l \in Lists : InitListCtorCall(l)
    \/ \E l, r \in Lists : CopyAssignCall(l, r)
    \/ \E l, r \in Lists : SwapCall(l, r)
    \/ \E l, r \in Lists : FreeSwapCall(l, r)
    \/ \E l \in Lists : DestructorCall(l)

SpecSwap == Init /\ [][NextSwap]_vars

(* A caller that constructs lists, inserts and erases elements, clears    *)
(* and destroys the lists.                                                *)
NextEdit ==
    \/ Discard
    \/ \E l \in Lists : DefaultCtorCall(l)
    \/ \E l \in Lists : InitListCtorCall(l)
    \/ \E l \in Lists, v \in Values : PushFrontCall(l, v)
    \/ \E l \in Lists, pos \in Addr, v \in Values : InsertAfterCall(l, pos, v)
    \/ \E l \in Lists, pos \in Addr : EraseAfterCall(l, pos)
    \/ \E l \in Lists : PopFrontCall(l)
    \/ \E l \in Lists : ClearCall(l)
    \/ \E l \in Lists : DestructorCall(l)

SpecEdit == Init /\ [][NextEdit]_vars

(* The same program, its caller following the copies it makes *)
SpecCopies == InitCopies /\ [][Next]_vars

----
(* Calls outside the preconditions.  The code has no check: it reads      *)
(* through the null pointer, which is undefined behaviour.  Either the    *)
(* access traps and the process dies with its memory as it was, or the    *)
(* read yields some word g and the member function goes on with it.       *)
(* Nothing is modelled after either.                                      *)

Words == Nodes \cup {NULL, WILD}

(* m with g for the word each invalid read yielded *)
Resolve(m, g) ==
    [m EXCEPT !.next_node =
        [a \in Addr |-> IF m.next_node[a] = WILD THEN g ELSE m.next_node[a]]]

PopFrontEmptyCall(l) ==
    /\ Idle /\ live[l]
    /\ IsEmpty(Mem, l)
    /\ \/ /\ last' = Call("PopFront", l, 0, NULL, 0, <<>>, NULL, "trap")
          /\ UNCHANGED <<next_node, value, allocated, size_>>
       \/ /\ \E g \in Words : Commit(Resolve(PopFront(Mem, l), g))
          /\ last' = Call("PopFront", l, 0, NULL, 0, <<>>, NULL, "undefined")
    /\ UNCHANGED <<live, snap>>

(* pos is the end position, or a position of l with no node after it *)
EraseAfterNoSuccessorCall(l, pos) ==
    /\ Idle /\ live[l]
    /\ pos \in ValidPos(l) \cup {End(Mem, l)}
    /\ pos = NULL \/ NextOf(Mem, pos) = NULL
    /\ \/ /\ last' = Call("EraseAfter", l, 0, pos, 0, <<>>, NULL, "trap")
          /\ UNCHANGED <<next_node, value, allocated, size_>>
       \/ \E g \in Words :
             LET res == EraseAfter(Mem, l, pos)
             IN  /\ Commit(Resolve(res.mem, g))
                 /\ last' = Call("EraseAfter", l, 0, pos, 0, <<>>,
                                 IF res.ret = WILD THEN g ELSE res.ret,
                                 "undefined")
    /\ UNCHANGED <<live, snap>>

(* The positions of the live lists other than l *)
ForeignPos(l) == UNION {ValidPos(r) : r \in {x \in Lists : x # l /\ live[x]}}

(* InsertAfter on list l with the end position, or with a position of     *)
(* another list: the latter is no invalid access, the node is linked      *)
(* where pos points and the count of l goes up.                           *)
InsertAfterInvalidPosCall(l, pos, v) ==
    /\ Idle /\ live[l]
    /\ Free # {}
    /\ pos \in {NULL} \cup ForeignPos(l)
    /\ LET res == InsertAfter(Mem, l, pos, v)
       IN  IF pos = NULL
           THEN \/ /\ last' = Call("InsertAfter", l, 0, pos, v, <<>>, NULL, "trap")
                   /\ UNCHANGED <<next_node, value, allocated, size_>>
                \/ /\ \E g \in Words : Commit(Resolve(res.mem, g))
                   /\ last' = Call("InsertAfter", l, 0, pos, v, <<>>, res.ret,
                                   "undefined")
           ELSE /\ Commit(res.mem)
                /\ last' = Call("InsertAfter", l, 0, pos, v, <<>>, res.ret,
                                "unchecked")
    /\ UNCHANGED <<live, snap>>

(* operator* and operator-> on an iterator that holds the null pointer    *)
(* (end(), a default-constructed iterator) or the address of head_        *)
(* (before_begin()): the first is an invalid access, the second reads the *)
(* value member of the sentinel.  v records the value read.               *)
DerefOps == {"operator*", "operator->"}

IteratorDerefInvalidCall(op, pos) ==
    /\ Idle
    /\ pos \in {NULL} \cup {before_begin(l) : l \in {x \in Lists : live[x]}}
    /\ IF pos = NULL
       THEN \/ last' = Call(op, 0, 0, pos, 0, <<>>, NULL, "trap")
            \/ \E g \in Values \cup {GARBAGE} :
                  last' = Call(op, 0, 0, pos, g, <<>>, NULL, "undefined")
       ELSE last' = Call(op, 0, 0, pos, IterDeref(Mem, pos), <<>>, NULL,
                         "unchecked")
    /\ UNCHANGED <<next_node, value, allocated, size_, live, snap>>

(* operator++ and operator++(int) on an iterator that holds the null      *)
(* pointer.  ret records the position the iterator holds afterwards.      *)
IncOps == {"operator++", "operator++(int)"}

IteratorIncInvalidCall(op) ==
    /\ Idle
    /\ \/ last' = Call(op, 0, 0, NULL, 0, <<>>, NULL, "trap")
       \/ \E g \in Words :
             last' = Call(op, 0, 0, NULL, 0, <<>>,
                          IF IterInc(Mem, NULL) = WILD THEN g
                          ELSE IterInc(Mem, NULL),
                          "undefined")
    /\ UNCHANGED <<next_node, value, allocated, size_, live, snap>>

NextMisuse ==
    \/ Next
    \/ \E l \in Lists : PopFrontEmptyCall(l)
    \/ \E l \in Lists, pos \in Addr \cup {NULL} : EraseAfterNoSuccessorCall(l, pos)
    \/ \E l \in Lists, pos \in Addr \cup {NULL}, v \in Values :
          InsertAfterInvalidPosCall(l, pos, v)
    \/ \E op \in DerefOps, pos \in Heads \cup {NULL} : IteratorDerefInvalidCall(op, pos)
    \/ \E op \in IncOps : IteratorIncInvalidCall(op)

SpecMisuse == Init /\ [][NextMisuse]_vars

----
(* Allocation failure: operator new throws std::bad_alloc in place of     *)
(* returning a node.  k counts the allocations of the call: the k-th one  *)
(* throws.                                                                *)

(* The storage of an object whose constructor left by an exception *)
Abandon(m, this) ==
    LET m1 == SetNext(m, HeadAddr(this), NULL)
    IN  [m1 EXCEPT !.size_ = [@ EXCEPT ![this] = 0]]

(* PushFront that counts the element before it allocates the node *)
PushFrontThrowCounted(m, this, val) ==
    [m EXCEPT !.size_ = [@ EXCEPT ![this] = @ + 1]]

(* PushFront: new Node(...) throws before head_.next_node is assigned and *)
(* before ++size_.                                                        *)
PushFrontThrow(m, this, val) == m

(* InsertAfter: new Node(...) throws before pos.node_->next_node is       *)
(* assigned and before ++size_.                                           *)
InsertAfterThrow(m, this, pos, val) == m

(* The loop of the initializer-list constructor: the PushFront reached    *)
(* with k = 1 throws.                                                     *)
RECURSIVE InitListLoopThrow(_, _, _, _, _)
InitListLoopThrow(m, temp, values, i, k) ==
    IF k > 1
    THEN InitListLoopThrow(PushFront(m, temp, values[i]), temp, values,
                           i - 1, k - 1)
    ELSE PushFrontThrow(m, temp, values[i])

(* The exception leaves the constructor: temp is destroyed, swap is not   *)
(* reached.                                                               *)
InitListCtorThrow(m, this, values, temp, junk, k) ==
    LET m0 == Construct(m, this, junk)
        m1 == Construct(m0, temp, 0)
        m2 == InitListLoopThrow(m1, temp, values, Len(values), k)
        m3 == Destructor(m2, temp)
    IN  Abandon(m3, this)

RECURSIVE CopyLoopThrow(_, _, _, _, _)
CopyLoopThrow(m, other, temp, i, k) ==
    LET current_value_iterator == StdNext(m, Begin(m, other), i - 1)
    IN  IF k > 1
        THEN CopyLoopThrow(
                 PushFront(m, temp, IterDeref(m, current_value_iterator)),
                 other, temp, i - 1, k - 1)
        ELSE PushFrontThrow(m, temp, IterDeref(m, current_value_iterator))

(* A copy constructor whose temp is not destroyed when the exception      *)
(* leaves                                                                 *)
CopyCtorThrowLeak(m, this, other, temp, k) ==
    LET m0 == Construct(m, this, 0)
        m1 == Construct(m0, temp, 0)
        m2 == CopyLoopThrow(m1, other, temp, GetSize(m1, other), k)
        m3 == Abandon(m2, temp)
    IN  Abandon(m3, this)

CopyCtorThrow(m, this, other, temp, k) ==
    LET m0 == Construct(m, this, 0)
        m1 == Construct(m0, temp, 0)
        size == GetSize(m1, other)
        m2 == CopyLoopThrow(m1, other, temp, size, k)
        m3 == Destructor(m2, temp)
    IN  Abandon(m3, this)

(* operator=: the construction of temp throws, swap is not reached *)
CopyAssignThrow(m, this, rhs, k) == CopyCtorThrow(m, Temp1, rhs, Temp2, k)

(* The value passed is not read before the throw: the caller's record of *)
(* the failed call leaves it out.                                         *)
PushFrontThrowCall(l, v) ==
    /\ Idle /\ live[l]
    /\ Commit(PushFrontThrow(Mem, l, v))
    /\ last' = Call("PushFront", l, 0, NULL, 0, <<>>, NULL, "bad_alloc")
    /\ UNCHANGED <<live, snap>>

InsertAfterThrowCall(l, pos, v) ==
    /\ Idle /\ live[l]
    /\ pos \in ValidPos(l)
    /\ Commit(InsertAfterThrow(Mem, l, pos, v))
    /\ last' = Call("InsertAfter", l, 0, pos, 0, <<>>, NULL, "bad_alloc")
    /\ UNCHANGED <<live, snap>>

(* v records k, the allocation that threw *)
InitListCtorThrowCall(l) ==
    /\ Idle /\ ~live[l]
    /\ \E values \in SeqsUpTo(Values, Cardinality(Free) + 1) :
       \E k \in 1..Len(values) :
       \E junk \in Junk :
          /\ Cardinality(Free) >= k - 1
          /\ Commit(InitListCtorThrow(Mem, l, values, Temp1, junk, k))
          /\ last' = Call("InitListCtor", l, 0, NULL, k, values, NULL,
                          "bad_alloc")
    /\ UNCHANGED <<live, snap>>

CopyCtorThrowCall(l, r) ==
    /\ Idle /\ ~live[l] /\ live[r]
    /\ \E k \in 1..size_[r] :
          /\ Cardinality(Free) >= k - 1
          /\ Commit(CopyCtorThrow(Mem, l, r, Temp1, k))
          /\ last' = Call("CopyCtor", l, r, NULL, k, <<>>, NULL, "bad_alloc")
    /\ UNCHANGED <<live, snap>>

CopyAssignThrowCall(l, r) ==
    /\ Idle /\ live[l] /\ live[r]
    /\ l # r
    /\ \E k \in 1..size_[r] :
          /\ Cardinality(Free) >= k - 1
          /\ Commit(CopyAssignThrow(Mem, l, r, k))
          /\ last' = Call("CopyAssign", l, r, NULL, k, <<>>, NULL, "bad_alloc")
    /\ UNCHANGED <<live, snap>>

(* A caller that constructs, fills and destroys lists and whose           *)
(* allocations can fail.                                                  *)
NextAlloc ==
    \/ Discard
    \/ \E l \in Lists : DefaultCtorCall(l)
    \/ \E l \in Lists : InitListCtorCall(l)
    \/ \E l \in Lists, v \in Values : PushFrontCall(l, v)
    \/ \E l \in Lists : PopFrontCall(l)
    \/ \E l \in Lists : DestructorCall(l)
    \/ \E l \in Lists, v \in Values : PushFrontThrowCall(l, v)
    \/ \E l \in Lists, pos \in Addr, v \in Values : InsertAfterThrowCall(l, pos, v)
    \/ \E l \in Lists : InitListCtorThrowCall(l)
    \/ \E l, r \in Lists : CopyCtorThrowCall(l, r)
    \/ \E l, r \in Lists : CopyAssignThrowCall(l, r)

SpecAlloc == Init /\ [][NextAlloc]_vars

----
(* The comparison operators.  They take their operands by const           *)
(* reference and walk them through the const begin() and end().           *)

ConstEnd(m, this) == EndWalk(m, m.next_node[HeadAddr(this)], 0, m.size_[this])

ConstBegin(m, this) ==
    IF m.size_[this] # 0 THEN m.next_node[HeadAddr(this)] ELSE ConstEnd(m, this)

(* std::equal(first1, last1, first2, last2) on forward iterators; the     *)
(* loop is cut after fuel steps.                                          *)
RECURSIVE StdEqualLoop(_, _, _, _, _, _)
StdEqualLoop(m, first1, last1, first2, last2, fuel) ==
    IF first1 # last1 /\ first2 # last2 /\ fuel > 0
    THEN IF IterDeref(m, first1) # IterDeref(m, first2) THEN FALSE
         ELSE StdEqualLoop(m, IterInc(m, first1), last1,
                           IterInc(m, first2), last2, fuel - 1)
    ELSE first1 = last1 /\ first2 = last2

(* std::equal that stops at the end of the first range *)
StdEqualFirstRange(m, first1, last1, first2, last2) ==
    LET a == IterateFrom(m, first1, last1, MaxNodes + 1)
        b == IterateFrom(m, first2, last2, MaxNodes + 1)
    IN  /\ Len(a) <= Len(b)
        /\ \A i \in 1..Len(a) : IterDeref(m, a[i]) = IterDeref(m, b[i])

StdEqual(m, first1, last1, first2, last2) ==
    StdEqualLoop(m, first1, last1, first2, last2, MaxNodes + 1)

(* std::lexicographical_compare(first1, last1, first2, last2) *)
RECURSIVE StdLexCompareLoop(_, _, _, _, _, _)
StdLexCompareLoop(m, first1, last1, first2, last2, fuel) ==
    IF first1 # last1 /\ first2 # last2 /\ fuel > 0
    THEN IF IterDeref(m, first1) < IterDeref(m, first2) THEN TRUE
         ELSE IF IterDeref(m, first2) < IterDeref(m, first1) THEN FALSE
         ELSE StdLexCompareLoop(m, IterInc(m, first1), last1,
                                IterInc(m, first2), last2, fuel - 1)
    ELSE first1 = last1 /\ first2 # last2

StdLexCompare(m, first1, last1, first2, last2) ==
    StdLexCompareLoop(m, first1, last1, first2, last2, MaxNodes + 1)

(* operator== *)
OpEq(m, lhs, rhs) ==
    IF lhs # rhs
    THEN StdEqual(m, ConstBegin(m, lhs), ConstEnd(m, lhs),
                  ConstBegin(m, rhs), ConstEnd(m, rhs))
    ELSE TRUE

(* operator!= *)
OpNe(m, lhs, rhs) ==
    IF lhs # rhs
    THEN ~StdEqual(m, ConstBegin(m, lhs), ConstEnd(m, lhs),
                   ConstBegin(m, rhs), ConstEnd(m, rhs))
    ELSE FALSE

(* operator< *)
OpLt(m, lhs, rhs) ==
    IF lhs # rhs
    THEN StdLexCompare(m, ConstBegin(m, lhs), ConstEnd(m, lhs),
                       ConstBegin(m, rhs), ConstEnd(m, rhs))
    ELSE FALSE

(* operator<= *)
OpLe(m, lhs, rhs) ==
    IF lhs # rhs
    THEN ~StdLexCompare(m, ConstBegin(m, rhs), ConstEnd(m, rhs),
                        ConstBegin(m, lhs), ConstEnd(m, lhs))
    ELSE FALSE

(* operator> *)
OpGt(m, lhs, rhs) ==
    IF lhs # rhs
    THEN StdLexCompare(m, ConstBegin(m, rhs), ConstEnd(m, rhs),
                       ConstBegin(m, lhs), ConstEnd(m, lhs))
    ELSE FALSE

(* operator>= *)
OpGe(m, lhs, rhs) ==
    IF lhs # rhs
    THEN ~StdLexCompare(m, ConstBegin(m, lhs), ConstEnd(m, lhs),
                        ConstBegin(m, rhs), ConstEnd(m, rhs))
    ELSE FALSE

CompareOps ==
    {"operator==", "operator!=", "operator<", "operator<=", "operator>",
     "operator>="}

Compare(op, m, lhs, rhs) ==
    CASE op = "operator==" -> OpEq(m, lhs, rhs)
      [] op = "operator!=" -> OpNe(m, lhs, rhs)
      [] op = "operator<" -> OpLt(m, lhs, rhs)
      [] op = "operator<=" -> OpLe(m, lhs, rhs)
      [] op = "operator>" -> OpGt(m, lhs, rhs)
      [] op = "operator>=" -> OpGe(m, lhs, rhs)

(* A program that constructs the two lists from initializer lists and     *)
(* compares them, with each other and with themselves.  ret records what  *)
(* the operator returned.                                                 *)
InitCompare ==
    \E s1, s2 \in SeqsUpTo(Values, MaxNodes) :
        /\ Len(s1) + Len(s2) <= MaxNodes
        /\ LET m0 == [next_node |-> [a \in Addr |-> NULL],
                      value |-> [n \in Nodes |-> GARBAGE],
                      allocated |-> {},
                      size_ |-> [l \in AllLists |-> 0]]
               m1 == InitListCtor(m0, 1, s1, Temp1, 0)
               m2 == InitListCtor(m1, 2, s2, Temp1, 0)
           IN  /\ next_node = m2.next_node
               /\ value = m2.value
               /\ allocated = m2.allocated
               /\ size_ = m2.size_
        /\ live = [l \in Lists |-> TRUE]
        /\ last = NoCall
        /\ snap = [on |-> FALSE, valid |-> FALSE, seq |-> <<>>, touched |-> {}]

CompareCall(op, l, r) ==
    /\ Idle /\ live[l] /\ live[r]
    /\ last' = Call(op, l, r, NULL, 0, <<>>, Compare(op, Mem, l, r), "ok")
    /\ UNCHANGED <<next_node, value, allocated, size_, live, snap>>

NextCompare ==
    \/ Discard
    \/ \E op \in CompareOps, l, r \in Lists : CompareCall(op, l, r)

SpecCompare == InitCompare /\ [][NextCompare]_vars

----
(* Properties *)

(* The index in list l's chain of the node at pos, 0 for before_begin *)
IndexOf(m, l, pos) ==
    IF pos = before_begin(l) THEN 0
    ELSE CHOOSE i \in 1..Len(Chain(m, l)) : Chain(m, l)[i] = pos

(* s with x put after its first k entries; s without its k-th entry *)
InsertAt(s, k, x) == SubSeq(s, 1, k) \o <<x>> \o SubSeq(s, k + 1, Len(s))
RemoveAt(s, k) == SubSeq(s, 1, k - 1) \o SubSeq(s, k + 1, Len(s))

Returned(op) == last.op = op /\ last.outcome = "ok"

(* C1: for every live list, size_ is the number of nodes linked after    *)
(* head_, the link after the last of them is null (so size_ + 1 links    *)
(* from head_ pass size_ heap nodes and then reach null), and size_ is 0 *)
(* exactly when head_.next_node is null.                                 *)
CountMatchesChain(l) ==
    /\ size_[l] = Len(Chain(Mem, l))
    /\ ChainEnd(Mem, l) = NULL
    /\ (size_[l] = 0) <=> (next_node[HeadAddr(l)] = NULL)

C1_CountMatchesChain == \A l \in Lists : live[l] => CountMatchesChain(l)

C1_Witness ==
    /\ Returned("EraseAfter")
    /\ size_[last.l] = 2
    /\ last.pos # before_begin(last.l)
    /\ \E r \in Lists : r # last.l /\ live[r] /\ size_[r] = 1

(* The nodes linked into the chains of the live lists among S, one chain *)
(* after the other                                                       *)
RECURSIVE Linked(_)
Linked(S) ==
    IF S = {} THEN <<>>
    ELSE LET l == CHOOSE x \in S : TRUE
         IN  (IF live[l] THEN Chain(Mem, l) ELSE <<>>) \o Linked(S \ {l})

(* C2: the nodes linked into the chains of the live lists are exactly    *)
(* the allocated nodes (none leaked, no deleted node still linked), and  *)
(* there are as many links to them as allocated nodes (each node is in   *)
(* one chain only, once); the objects that are not live (destroyed       *)
(* lists, the temporaries of the constructors and of operator=) hold no  *)
(* node.                                                                 *)
C2_SingleOwner ==
    LET linked == Linked(Lists)
    IN  /\ Range(linked) = allocated
        /\ Len(linked) = Cardinality(allocated)
        /\ \A l \in AllLists :
              (l \notin Lists \/ ~live[l]) => next_node[HeadAddr(l)] = NULL

C2_Witness ==
    /\ Returned("CopyAssign")
    /\ last.l # last.r
    /\ Len(Chain(last.pre, last.l)) = 2
    /\ Len(Chain(Mem, last.l)) = 1
    /\ Cardinality(last.pre.allocated \ allocated) = 2
    /\ Range(Chain(Mem, last.l)) \cap last.pre.allocated = {}

(* C3: the list built by the initializer-list constructor from values    *)
(* yields values, in order, when iterated from begin() to end(), and     *)
(* GetSize() is their number; whatever uninitialized size_ held.         *)
C3_InitListOrder ==
    Returned("InitListCtor") =>
        /\ Elements(Mem, last.l) = last.vals
        /\ GetSize(Mem, last.l) = Len(last.vals)

C3_Witness ==
    /\ Returned("InitListCtor")
    /\ Len(last.vals) >= 3
    /\ last.vals[1] # last.vals[2]
    /\ last.v # 0

(* C4: after copy construction of l from r, and after l = r for l other  *)
(* than r, l holds the elements r held, in order, with the same size,    *)
(* and r has its elements, its size and its nodes as before.             *)
C4_CopyEqualsSource ==
    (Returned("CopyCtor") \/ Returned("CopyAssign")) /\ last.l # last.r =>
        /\ Elements(Mem, last.l) = Elements(last.pre, last.r)
        /\ GetSize(Mem, last.l) = GetSize(last.pre, last.r)
        /\ GetSize(Mem, last.l) = Len(Elements(last.pre, last.r))
        /\ Elements(Mem, last.r) = Elements(last.pre, last.r)
        /\ GetSize(Mem, last.r) = GetSize(last.pre, last.r)
        /\ Positions(Mem, last.r) = Positions(last.pre, last.r)

C4_Witness ==
    /\ Returned("CopyAssign")
    /\ last.l # last.r
    /\ Len(Elements(last.pre, last.l)) = 2
    /\ Len(Elements(Mem, last.l)) = 1
    /\ Elements(Mem, last.l)[1] # Elements(last.pre, last.l)[1]

(* C5: once a list was made as a copy of another, a list that was not    *)
(* itself modified since (by PushFront, InsertAfter, EraseAfter,         *)
(* PopFront or Clear) still has the elements and the size of the copy,   *)
(* however the other list was modified.                                  *)
C5_CopyIndependent ==
    snap.valid =>
        \A l \in Lists \ snap.touched :
            /\ Elements(Mem, l) = snap.seq
            /\ GetSize(Mem, l) = Len(snap.seq)

C5_Witness ==
    /\ snap.valid
    /\ Returned("EraseAfter")
    /\ snap.touched = {last.l}
    /\ Len(snap.seq) = 2
    /\ Elements(Mem, last.l) # snap.seq

(* C6: InsertAfter(pos, v), pos being before_begin() or a node of the    *)
(* list, puts v right after pos's element (first for before_begin()),    *)
(* keeps the other elements in order, adds 1 to GetSize(), and returns   *)
(* the position of a node newly allocated, which holds v and is the one  *)
(* now following pos.                                                    *)
C6_InsertAfter ==
    Returned("InsertAfter") =>
        LET k == IndexOf(last.pre, last.l, last.pos)
        IN  /\ Elements(Mem, last.l) = InsertAt(Elements(last.pre, last.l), k, last.v)
            /\ GetSize(Mem, last.l) = GetSize(last.pre, last.l) + 1
            /\ last.ret \in allocated \ last.pre.allocated
            /\ IterDeref(Mem, last.ret) = last.v
            /\ Positions(Mem, last.l) = InsertAt(Positions(last.pre, last.l), k, last.ret)

C6_Witness ==
    /\ Returned("InsertAfter")
    /\ last.pos # before_begin(last.l)
    /\ IndexOf(last.pre, last.l, last.pos) = 1
    /\ Len(Elements(last.pre, last.l)) = 2
    /\ last.v # Elements(last.pre, last.l)[1]

(* C7: EraseAfter(pos), pos being before_begin() or a node of the list   *)
(* with a node after it, deletes exactly that node, keeps the other      *)
(* elements and nodes in order, takes 1 from GetSize(), and returns the  *)
(* position of the node that followed the deleted one, end() if none     *)
(* did.                                                                  *)
C7_EraseAfter ==
    Returned("EraseAfter") =>
        LET k == IndexOf(last.pre, last.l, last.pos)
            before == Positions(last.pre, last.l)
        IN  /\ allocated = last.pre.allocated \ {before[k + 1]}
            /\ before[k + 1] \in last.pre.allocated
            /\ Elements(Mem, last.l) = RemoveAt(Elements(last.pre, last.l), k + 1)
            /\ Positions(Mem, last.l) = RemoveAt(before, k + 1)
            /\ GetSize(Mem, last.l) = GetSize(last.pre, last.l) - 1
            /\ last.ret = IF k + 1 < Len(before) THEN before[k + 2]
                                                 ELSE End(Mem, last.l)

C7_Witness ==
    /\ Returned("EraseAfter")
    /\ last.pos # before_begin(last.l)
    /\ Len(Elements(last.pre, last.l)) = 3
    /\ last.ret \in Nodes
    /\ Elements(last.pre, last.l)[1] # Elements(last.pre, last.l)[2]

(* C8: PushFront(v) makes the elements v followed by the elements there  *)
(* were, and adds 1 to GetSize(), whether the list was empty or not.     *)
C8_PushFront ==
    Returned("PushFront") =>
        /\ Elements(Mem, last.l) = <<last.v>> \o Elements(last.pre, last.l)
        /\ GetSize(Mem, last.l) = GetSize(last.pre, last.l) + 1

C8_Witness ==
    /\ Returned("PushFront")
    /\ Len(Elements(last.pre, last.l)) = 2
    /\ last.v # Elements(last.pre, last.l)[1]

(* C9: PopFront() on an empty list reports an error and leaves the      *)
(* links, the nodes and size_ as they were.                              *)
C9_PopFrontEmptyFails ==
    last.op = "PopFront" /\ IsEmpty(last.pre, last.l) =>
        /\ last.outcome = "error"
        /\ Mem = last.pre

(* C10: EraseAfter(pos) with no node after pos (pos the last node,       *)
(* before_begin() of an empty list, or end()) reports an error and       *)
(* leaves the links, the nodes and size_ as they were.                   *)
C10_EraseAfterNoSuccessorFails ==
    /\ last.op = "EraseAfter"
    /\ last.pos = NULL \/ NextOf(last.pre, last.pos) = NULL
    =>
        /\ last.outcome = "error"
        /\ Mem = last.pre

(* C11: InsertAfter on list l with a position that is neither             *)
(* before_begin() of l nor a node of l (the end position, a position of   *)
(* another list) reports an error and leaves the links, the nodes and     *)
(* both counts as they were.                                              *)
C11_InsertAfterInvalidPosFails ==
    /\ last.op = "InsertAfter"
    /\ last.pos \notin {before_begin(last.l)} \cup Range(Chain(last.pre, last.l))
    =>
        /\ last.outcome = "error"
        /\ Mem = last.pre

(* C12: dereferencing or advancing an iterator that holds the null        *)
(* position, and dereferencing one that holds before_begin(), reports an  *)
(* error.                                                                 *)
C12_InvalidIteratorUseFails ==
    \/ last.op \in IncOps /\ last.pos = NULL
    \/ last.op \in DerefOps /\ last.pos \in Heads \cup {NULL}
    =>
        last.outcome = "error"

(* C13: when an allocation throws during PushFront, InsertAfter, the      *)
(* initializer-list constructor, the copy constructor or the copy         *)
(* assignment, every list keeps its chain, its elements and its count, a  *)
(* list under construction does not come to exist, the nodes allocated    *)
(* earlier in the call are released, and the count of every list still    *)
(* matches its chain with every allocated node owned by one list.         *)
C13_AllocFailureKeepsState ==
    last.outcome = "bad_alloc" =>
        /\ \A l \in Lists :
              /\ Chain(Mem, l) = Chain(last.pre, l)
              /\ Elements(Mem, l) = Elements(last.pre, l)
              /\ size_[l] = last.pre.size_[l]
        /\ allocated = last.pre.allocated
        /\ Mem = last.pre
        /\ last.op \in {"InitListCtor", "CopyCtor"} => ~live[last.l]
        /\ C1_CountMatchesChain
        /\ C2_SingleOwner

(* A copy assignment onto a non-empty list whose second allocation threw *)
C13_Witness ==
    /\ last.outcome = "bad_alloc"
    /\ last.op = "CopyAssign"
    /\ last.v = 2
    /\ Len(Chain(Mem, last.l)) >= 1

SwapOps == {"swap", "swap(lhs, rhs)"}

(* C14: after the member swap and after the free function swap each list  *)
(* holds the chain, the elements and the count the other held; no node is *)
(* allocated, freed, re-linked or changed in value; swapping the two      *)
(* again, through either function and in either order of the operands,    *)
(* gives back the memory before the call.                                 *)
C14_SwapExchanges ==
    last.op \in SwapOps /\ last.outcome = "ok" =>
        /\ Chain(Mem, last.l) = Chain(last.pre, last.r)
        /\ Chain(Mem, last.r) = Chain(last.pre, last.l)
        /\ Elements(Mem, last.l) = Elements(last.pre, last.r)
        /\ Elements(Mem, last.r) = Elements(last.pre, last.l)
        /\ size_[last.l] = last.pre.size_[last.r]
        /\ size_[last.r] = last.pre.size_[last.l]
        /\ allocated = last.pre.allocated
        /\ value = last.pre.value
        /\ \A n \in Nodes : next_node[n] = last.pre.next_node[n]
        /\ swap(Mem, last.l, last.r) = last.pre
        /\ swap(Mem, last.r, last.l) = last.pre
        /\ FreeSwap(Mem, last.l, last.r) = last.pre

(* The free function swapped two non-empty lists of different lengths *)
C14_Witness ==
    /\ Returned("swap(lhs, rhs)")
    /\ last.l # last.r
    /\ Len(Chain(last.pre, last.l)) >= 1
    /\ Len(Chain(last.pre, last.r)) > Len(Chain(last.pre, last.l))
    /\ Elements(Mem, last.l) # Elements(Mem, last.r)

(* C15: assigning a list to itself and swapping a list with itself leave  *)
(* the memory as it was: the same nodes in the same order, the same       *)
(* count, nothing allocated or freed, every position on the node it was   *)
(* on.                                                                    *)
C15_SelfAssignSelfSwapNoOp ==
    /\ last.op \in SwapOps \cup {"CopyAssign"}
    /\ last.outcome = "ok"
    /\ last.l = last.r
    =>
        /\ Chain(Mem, last.l) = Chain(last.pre, last.l)
        /\ Elements(Mem, last.l) = Elements(last.pre, last.l)
        /\ size_[last.l] = last.pre.size_[last.l]
        /\ allocated = last.pre.allocated
        /\ Mem = last.pre

(* A list of two elements was assigned to itself *)
C15_Witness ==
    /\ Returned("CopyAssign")
    /\ last.l = last.r
    /\ Len(Chain(last.pre, last.l)) = 2

(* C16: after Clear() and after the destructor the list has count 0,      *)
(* begin() equal to end() and a null link in head_; the nodes it owned    *)
(* were each passed to delete once and are the nodes released; the other  *)
(* lists keep their chains.                                               *)
C16_ClearReleasesAll ==
    Returned("Clear") \/ Returned("Destructor") =>
        /\ GetSize(Mem, last.l) = 0
        /\ IsEmpty(Mem, last.l)
        /\ Begin(Mem, last.l) = End(Mem, last.l)
        /\ next_node[HeadAddr(last.l)] = NULL
        /\ Chain(Mem, last.l) = <<>>
        /\ ClearDeletes(last.pre, last.l) = Chain(last.pre, last.l)
        /\ allocated = last.pre.allocated \ Range(Chain(last.pre, last.l))
        /\ \A r \in Lists \ {last.l} : Chain(Mem, r) = Chain(last.pre, r)

(* Clear() on a list of at least two nodes while another list holds nodes *)
C16_Witness ==
    /\ Returned("Clear")
    /\ Len(Chain(last.pre, last.l)) >= 2
    /\ \E r \in Lists \ {last.l} : Chain(Mem, r) # <<>>

(* C19: between calls, for every live list the walk of end() and cend()  *)
(* reads next_node through heap nodes only and returns the null position; *)
(* begin() and cbegin() return the first node of a non-empty list and the *)
(* end position of an empty one; begin() = end() exactly when IsEmpty(),  *)
(* exactly when GetSize() = 0.                                            *)
C19_BeginEnd ==
    Idle =>
        \A l \in Lists : live[l] =>
            LET chain == Chain(Mem, l)
                e == End(Mem, l)
                ce == CEnd(Mem, l)
                b == Begin(Mem, l)
                cb == CBegin(Mem, l)
            IN  /\ EndWalkReads(Mem, next_node[HeadAddr(l)], 0, size_[l])
                       \subseteq Nodes
                /\ e = NULL
                /\ ce = NULL
                /\ b = IF chain # <<>> THEN chain[1] ELSE e
                /\ cb = IF chain # <<>> THEN chain[1] ELSE ce
                /\ (b = e) = IsEmpty(Mem, l)
                /\ (cb = ce) = IsEmpty(Mem, l)
                /\ IsEmpty(Mem, l) = (GetSize(Mem, l) = 0)

(* A list of at least two nodes next to an empty list *)
C19_Witness ==
    \E l, r \in Lists :
        /\ Idle
        /\ live[l] /\ live[r]
        /\ Len(Chain(Mem, l)) >= 2
        /\ Begin(Mem, l) # End(Mem, l)
        /\ IsEmpty(Mem, r)
        /\ Begin(Mem, r) = End(Mem, r)

(* C20: PopFront() leaves the memory EraseAfter(before_begin()) would     *)
(* leave, and the reverse: the first node is unlinked and released, the   *)
(* other elements keep their order, the count goes down by one;           *)
(* PushFront(v) leaves the memory InsertAfter(before_begin(), v) would    *)
(* leave, and the reverse: v is the first element, the former elements    *)
(* follow, the count goes up by one.                                      *)
C20_FrontOpsAsAfterOps ==
    /\ Returned("PopFront") =>
          /\ Mem = EraseAfter(last.pre, last.l, before_begin(last.l)).mem
          /\ Elements(Mem, last.l) = Tail(Elements(last.pre, last.l))
          /\ allocated = last.pre.allocated \ {Chain(last.pre, last.l)[1]}
          /\ size_[last.l] = last.pre.size_[last.l] - 1
    /\ Returned("EraseAfter") /\ last.pos = before_begin(last.l) =>
          Mem = PopFront(last.pre, last.l)
    /\ Returned("PushFront") =>
          /\ Mem = InsertAfter(last.pre, last.l, before_begin(last.l), last.v).mem
          /\ Elements(Mem, last.l) = <<last.v>> \o Elements(last.pre, last.l)
          /\ size_[last.l] = last.pre.size_[last.l] + 1
    /\ Returned("InsertAfter") /\ last.pos = before_begin(last.l) =>
          Mem = PushFront(last.pre, last.l, last.v)

(* PopFront() on a list of at least two nodes *)
C20_Witness ==
    /\ Returned("PopFront")
    /\ Len(Chain(last.pre, last.l)) >= 2

(* a is lexicographically less than b: at the first index where they     *)
(* differ a holds the smaller value, or a is a proper prefix of b.        *)
RECURSIVE LexLess(_, _)
LexLess(a, b) ==
    IF b = <<>> THEN FALSE
    ELSE IF a = <<>> THEN TRUE
    ELSE IF a[1] < b[1] THEN TRUE
    ELSE IF b[1] < a[1] THEN FALSE
    ELSE LexLess(Tail(a), Tail(b))

(* C17: for two lists, distinct objects or the same object, < returns     *)
(* whether the elements of the left are lexicographically less than those *)
(* of the right, > the same with the operands exchanged, <= the negation  *)
(* of >, >= the negation of <.                                            *)
C17_OrderingLexicographic ==
    LET a == Elements(Mem, last.l)
        b == Elements(Mem, last.r)
    IN  /\ Returned("operator<") => last.ret = LexLess(a, b)
        /\ Returned("operator>") => last.ret = LexLess(b, a)
        /\ Returned("operator<=") => last.ret = ~LexLess(b, a)
        /\ Returned("operator>=") => last.ret = ~LexLess(a, b)

(* C18: == returns true exactly when the two lists have the same length   *)
(* and equal values at every index, true when both operands are the same  *)
(* object; != returns the negation of ==.                                 *)
C18_EqualityElementwise ==
    LET a == Elements(Mem, last.l)
        b == Elements(Mem, last.r)
        same == /\ Len(a) = Len(b)
                /\ \A i \in 1..Len(a) : a[i] = b[i]
    IN  /\ Returned("operator==") =>
              /\ last.ret = same
              /\ last.l = last.r => last.ret = TRUE
        /\ Returned("operator!=") =>
              /\ last.ret = ~same
              /\ last.ret = ~OpEq(Mem, last.l, last.r)

(* == on two distinct lists, the left a proper non-empty prefix of the    *)
(* right, returned false                                                  *)
C18_Witness ==
    /\ Returned("operator==")
    /\ last.l # last.r
    /\ Elements(Mem, last.l) # <<>>
    /\ Len(Elements(Mem, last.l)) < Len(Elements(Mem, last.r))
    /\ Elements(Mem, last.l) =
           SubSeq(Elements(Mem, last.r), 1, Len(Elements(Mem, last.l)))
    /\ last.ret = FALSE

====
